---------------------------- MODULE Spec2Model ----------------------------
(***************************************************************************)
(* Model of packages/firestore/src/core/query.ts: Query, FieldFilter and   *)
(* its variants, Bound and OrderBy.                                        *)
(*                                                                         *)
(* An optional value (T | null) is a sequence of length 0 or 1.            *)
(* debugAssert is modelled as enabled: a failed assertion throws, the      *)
(* operation is aborted and nothing more is done with the objects          *)
(* involved (err = "assert" is a final state).                             *)
(***************************************************************************)
EXTENDS Integers, Sequences, FiniteSets, TLC

None == <<>>
Some(x) == <<x>>
IsSet(o) == Len(o) > 0
Get(o) == o[1]

(***************************************************************************)
(* Bounds of the model.                                                    *)
(***************************************************************************)
MaxVal == 2
\* The number of constraints (order-by clauses, filters, limit, bounds) the
\* builder operations put on one Query.
MaxConstraints == 4

(***************************************************************************)
(* api.Value and model/values.ts (external to query.ts).                   *)
(***************************************************************************)
NullValue == [t |-> "null"]
NanValue == [t |-> "nan"]
Num(n) == [t |-> "num", n |-> n]
Ref(k) == [t |-> "ref", k |-> k]
Arr(s) == [t |-> "arr", e |-> s]

isNullValue(v) == v.t = "null"
isNanValue(v) == v.t = "nan"
isReferenceValue(v) == v.t = "ref"
isArray(v) == v.t = "arr"

Sign(n) == IF n < 0 THEN -1 ELSE IF n > 0 THEN 1 ELSE 0

typeOrder(v) ==
  CASE v.t = "null" -> 0
    [] v.t = "nan" -> 2
    [] v.t = "num" -> 2
    [] v.t = "ref" -> 7
    [] v.t = "arr" -> 9

\* Rank of a path segment in the lexicographic order of strings.
SegRank(s) ==
  CASE s = "c" -> 1
    [] s = "d" -> 2
    [] s = "x" -> 3
    [] s = "y" -> 4
    [] s = "z" -> 5

RECURSIVE PathCompare(_, _)
PathCompare(p1, p2) ==
  IF p1 = <<>> \/ p2 = <<>>
  THEN Sign(Len(p1) - Len(p2))
  ELSE IF SegRank(Head(p1)) # SegRank(Head(p2))
       THEN Sign(SegRank(Head(p1)) - SegRank(Head(p2)))
       ELSE PathCompare(Tail(p1), Tail(p2))

RECURSIVE valueCompare(_, _)
RECURSIVE ArrCompare(_, _)
ArrCompare(s1, s2) ==
  IF s1 = <<>> \/ s2 = <<>>
  THEN Sign(Len(s1) - Len(s2))
  ELSE LET c == valueCompare(Head(s1), Head(s2))
       IN IF c # 0 THEN c ELSE ArrCompare(Tail(s1), Tail(s2))

valueCompare(l, r) ==
  IF typeOrder(l) # typeOrder(r)
  THEN Sign(typeOrder(l) - typeOrder(r))
  ELSE CASE l.t = "null" -> 0
         [] l.t \in {"nan", "num"} ->
              IF l.t = "nan" THEN (IF r.t = "nan" THEN 0 ELSE -1)
              ELSE IF r.t = "nan" THEN 1 ELSE Sign(l.n - r.n)
         [] l.t = "ref" -> PathCompare(l.k, r.k)
         [] l.t = "arr" -> ArrCompare(l.e, r.e)

valueEquals(l, r) == l = r

arrayValueContains(arr, v) == \E i \in 1..Len(arr.e) : valueEquals(arr.e[i], v)

(***************************************************************************)
(* model/path.ts, model/document_key.ts, model/document.ts (external).     *)
(***************************************************************************)
KeyField == "__name__"
isKeyField(f) == f = KeyField

isDocumentKey(p) == Len(p) % 2 = 0
isPrefixOf(p, other) ==
  Len(p) <= Len(other) /\ \A i \in 1..Len(p) : p[i] = other[i]
isImmediateParentOf(p, other) == Len(p) + 1 = Len(other) /\ isPrefixOf(p, other)
hasCollectionId(key, id) == Len(key) >= 2 /\ key[Len(key) - 1] = id
KeyComparator(k1, k2) == PathCompare(k1, k2)

\* A Document: its key and the optional value of each of its fields.
Doc(k, a, b) == [key |-> k, a |-> a, b |-> b]
DocField(d, f) == IF f = "a" THEN d.a ELSE d.b

(***************************************************************************)
(* Direction, OrderBy.                                                     *)
(***************************************************************************)
ASCENDING == "asc"
DESCENDING == "desc"

OrderBy(f, dir) == [field |-> f, dir |-> dir]

\* OrderBy.compare, with Document.compareByKey and Document.compareByField.
\* compareByField fails when either document has no value for the field.
compareFails(ob, d1, d2) ==
  ~isKeyField(ob.field)
  /\ (~IsSet(DocField(d1, ob.field)) \/ ~IsSet(DocField(d2, ob.field)))

compare(ob, d1, d2) ==
  LET comparison ==
        IF isKeyField(ob.field)
        THEN KeyComparator(d1.key, d2.key)
        ELSE valueCompare(Get(DocField(d1, ob.field)), Get(DocField(d2, ob.field)))
  IN IF ob.dir = ASCENDING THEN comparison ELSE (-1) * comparison

(***************************************************************************)
(* Bound.                                                                  *)
(***************************************************************************)
Bound(position, before) == [position |-> position, before |-> before]

\* The loop body without the negation for a descending clause.
ComponentCompare_NoNegation(bound, orderBy, doc, i) ==
  LET orderByComponent == orderBy[i]
      component == bound.position[i]
  IN IF isKeyField(orderByComponent.field)
     THEN KeyComparator(component.k, doc.key)
     ELSE valueCompare(component, Get(DocField(doc, orderByComponent.field)))

\* One pass of the loop body of sortsBeforeDocument: the comparison of
\* component i, negated for a descending clause.
ComponentCompare(bound, orderBy, doc, i) ==
  LET orderByComponent == orderBy[i]
      component == bound.position[i]
      comparison ==
        IF isKeyField(orderByComponent.field)
        THEN KeyComparator(component.k, doc.key)
        ELSE valueCompare(component, Get(DocField(doc, orderByComponent.field)))
  IN IF orderByComponent.dir = DESCENDING THEN comparison * (-1) ELSE comparison

\* The debugAssert inside the loop body fails for component i.
ComponentAssertFails(bound, orderBy, doc, i) ==
  IF isKeyField(orderBy[i].field)
  THEN ~isReferenceValue(bound.position[i])
  ELSE ~IsSet(DocField(doc, orderBy[i].field))

RECURSIVE BoundLoop(_, _, _, _)
\* The loop of sortsBeforeDocument from component i on: the comparison it
\* ends with, or "assert" in field err.
BoundLoop(bound, orderBy, doc, i) ==
  IF i > Len(bound.position)
  THEN [err |-> FALSE, comparison |-> 0]
  ELSE IF ComponentAssertFails(bound, orderBy, doc, i)
       THEN [err |-> TRUE, comparison |-> 0]
       ELSE LET comparison == ComponentCompare(bound, orderBy, doc, i)
            IN IF comparison # 0
               THEN [err |-> FALSE, comparison |-> comparison]
               ELSE BoundLoop(bound, orderBy, doc, i + 1)

sortsBeforeFails(bound, orderBy, doc) ==
  \/ Len(bound.position) > Len(orderBy)
  \/ BoundLoop(bound, orderBy, doc, 1).err

\* sortsBeforeDocument that ignores the before flag.
sortsBeforeDocument_IgnoreBefore(bound, orderBy, doc) ==
  BoundLoop(bound, orderBy, doc, 1).comparison <= 0

sortsBeforeDocument(bound, orderBy, doc) ==
  LET comparison == BoundLoop(bound, orderBy, doc, 1).comparison
  IN IF bound.before THEN comparison <= 0 ELSE comparison < 0

(***************************************************************************)
(* Operator, FieldFilter and its variants.                                 *)
(***************************************************************************)
LESS_THAN == "<"
LESS_THAN_OR_EQUAL == "<="
EQUAL == "=="
GREATER_THAN == ">"
GREATER_THAN_OR_EQUAL == ">="
ARRAY_CONTAINS == "array-contains"
IN_ == "in"   \* Operator.IN
ARRAY_CONTAINS_ANY == "array-contains-any"

Operators ==
  {LESS_THAN, LESS_THAN_OR_EQUAL, EQUAL, GREATER_THAN, GREATER_THAN_OR_EQUAL,
   ARRAY_CONTAINS, IN_, ARRAY_CONTAINS_ANY}

Filter(kind, field, op, value) ==
  [kind |-> kind, field |-> field, op |-> op, value |-> value]

Created(f) == [err |-> "none", filter |-> Some(f)]
Thrown(e) == [err |-> e, filter |-> None]

\* create whose null branch does not look at the operator.
create_NullAnyOperator(field, op, value) ==
  IF isKeyField(field)
  THEN IF op = IN_
       THEN IF ~isArray(value) THEN Thrown("assert")
            ELSE IF ~(\A i \in 1..Len(value.e) : isReferenceValue(value.e[i]))
                 THEN Thrown("assert")
                 ELSE Created(Filter("KeyFieldInFilter", field, IN_, value))
       ELSE IF ~isReferenceValue(value) THEN Thrown("assert")
            ELSE IF ~(op # ARRAY_CONTAINS /\ op # ARRAY_CONTAINS_ANY)
                 THEN Thrown("assert")
                 ELSE Created(Filter("KeyFieldFilter", field, op, value))
  ELSE IF isNullValue(value)
  THEN Created(Filter("FieldFilter", field, op, value))
  ELSE IF isNanValue(value)
  THEN IF op # EQUAL THEN Thrown("invalid-argument")
       ELSE Created(Filter("FieldFilter", field, op, value))
  ELSE IF op = ARRAY_CONTAINS
  THEN Created(Filter("ArrayContainsFilter", field, ARRAY_CONTAINS, value))
  ELSE IF op = IN_
  THEN IF ~isArray(value) THEN Thrown("assert")
       ELSE Created(Filter("InFilter", field, IN_, value))
  ELSE IF op = ARRAY_CONTAINS_ANY
  THEN IF ~isArray(value) THEN Thrown("assert")
       ELSE Created(Filter("ArrayContainsAnyFilter", field, ARRAY_CONTAINS_ANY, value))
  ELSE Created(Filter("FieldFilter", field, op, value))

\* create that builds an InFilter without asserting that the operand is an array.
create_InAnyOperand(field, op, value) ==
  IF isKeyField(field)
  THEN IF op = IN_
       THEN IF ~isArray(value) THEN Thrown("assert")
            ELSE IF ~(\A i \in 1..Len(value.e) : isReferenceValue(value.e[i]))
                 THEN Thrown("assert")
                 ELSE Created(Filter("KeyFieldInFilter", field, IN_, value))
       ELSE IF ~isReferenceValue(value) THEN Thrown("assert")
            ELSE IF ~(op # ARRAY_CONTAINS /\ op # ARRAY_CONTAINS_ANY)
                 THEN Thrown("assert")
                 ELSE Created(Filter("KeyFieldFilter", field, op, value))
  ELSE IF isNullValue(value)
  THEN IF op # EQUAL THEN Thrown("invalid-argument")
       ELSE Created(Filter("FieldFilter", field, op, value))
  ELSE IF isNanValue(value)
  THEN IF op # EQUAL THEN Thrown("invalid-argument")
       ELSE Created(Filter("FieldFilter", field, op, value))
  ELSE IF op = ARRAY_CONTAINS
  THEN Created(Filter("ArrayContainsFilter", field, ARRAY_CONTAINS, value))
  ELSE IF op = IN_
  THEN Created(Filter("InFilter", field, IN_, value))
  ELSE IF op = ARRAY_CONTAINS_ANY
  THEN IF ~isArray(value) THEN Thrown("assert")
       ELSE Created(Filter("ArrayContainsAnyFilter", field, ARRAY_CONTAINS_ANY, value))
  ELSE Created(Filter("FieldFilter", field, op, value))

create(field, op, value) ==
  IF isKeyField(field)
  THEN IF op = IN_
       THEN IF ~isArray(value) THEN Thrown("assert")
            ELSE IF ~(\A i \in 1..Len(value.e) : isReferenceValue(value.e[i]))
                 THEN Thrown("assert")
                 ELSE Created(Filter("KeyFieldInFilter", field, IN_, value))
       ELSE IF ~isReferenceValue(value) THEN Thrown("assert")
            ELSE IF ~(op # ARRAY_CONTAINS /\ op # ARRAY_CONTAINS_ANY)
                 THEN Thrown("assert")
                 ELSE Created(Filter("KeyFieldFilter", field, op, value))
  ELSE IF isNullValue(value)
  THEN IF op # EQUAL THEN Thrown("invalid-argument")
       ELSE Created(Filter("FieldFilter", field, op, value))
  ELSE IF isNanValue(value)
  THEN IF op # EQUAL THEN Thrown("invalid-argument")
       ELSE Created(Filter("FieldFilter", field, op, value))
  ELSE IF op = ARRAY_CONTAINS
  THEN Created(Filter("ArrayContainsFilter", field, ARRAY_CONTAINS, value))
  ELSE IF op = IN_
  THEN IF ~isArray(value) THEN Thrown("assert")
       ELSE Created(Filter("InFilter", field, IN_, value))
  ELSE IF op = ARRAY_CONTAINS_ANY
  THEN IF ~isArray(value) THEN Thrown("assert")
       ELSE Created(Filter("ArrayContainsAnyFilter", field, ARRAY_CONTAINS_ANY, value))
  ELSE Created(Filter("FieldFilter", field, op, value))

matchesComparison(f, comparison) ==
  CASE f.op = LESS_THAN -> comparison < 0
    [] f.op = LESS_THAN_OR_EQUAL -> comparison <= 0
    [] f.op = EQUAL -> comparison = 0
    [] f.op = GREATER_THAN -> comparison > 0
    [] f.op = GREATER_THAN_OR_EQUAL -> comparison >= 0

isInequality(f) ==
  f.op \in {LESS_THAN, LESS_THAN_OR_EQUAL, GREATER_THAN, GREATER_THAN_OR_EQUAL}

\* FieldFilter.matches that lets a document without the field pass.
FieldFilterMatches_MissingPasses(f, doc) ==
  LET other == DocField(doc, f.field)
  IN IsSet(other) =>
       /\ typeOrder(f.value) = typeOrder(Get(other))
       /\ matchesComparison(f, valueCompare(Get(other), f.value))

FieldFilterMatches(f, doc) ==
  LET other == DocField(doc, f.field)
  IN /\ IsSet(other)
     /\ typeOrder(f.value) = typeOrder(Get(other))
     /\ matchesComparison(f, valueCompare(Get(other), f.value))

KeyFieldFilterMatches(f, doc) ==
  matchesComparison(f, KeyComparator(doc.key, f.value.k))

KeyFieldInFilterMatches(f, doc) ==
  \E i \in 1..Len(f.value.e) : f.value.e[i].k = doc.key

ArrayContainsFilterMatches(f, doc) ==
  LET other == DocField(doc, f.field)
  IN IsSet(other) /\ isArray(Get(other)) /\ arrayValueContains(Get(other), f.value)

InFilterMatches(f, doc) ==
  LET other == DocField(doc, f.field)
  IN IsSet(other) /\ arrayValueContains(f.value, Get(other))

ArrayContainsAnyFilterMatches(f, doc) ==
  LET other == DocField(doc, f.field)
  IN /\ IsSet(other)
     /\ isArray(Get(other))
     /\ \E i \in 1..Len(Get(other).e) : arrayValueContains(f.value, Get(other).e[i])

\* Filter.matches, dispatched on the class of the filter.
FilterMatches(f, doc) ==
  CASE f.kind = "FieldFilter" -> FieldFilterMatches(f, doc)
    [] f.kind = "KeyFieldFilter" -> KeyFieldFilterMatches(f, doc)
    [] f.kind = "KeyFieldInFilter" -> KeyFieldInFilterMatches(f, doc)
    [] f.kind = "ArrayContainsFilter" -> ArrayContainsFilterMatches(f, doc)
    [] f.kind = "InFilter" -> InFilterMatches(f, doc)
    [] f.kind = "ArrayContainsAnyFilter" -> ArrayContainsAnyFilterMatches(f, doc)

(***************************************************************************)
(* Target (core/target.ts, external): a plain value.                       *)
(***************************************************************************)
Target(path, collectionGroup, orderBy, filters, limit, startAt, endAt) ==
  [path |-> path, collectionGroup |-> collectionGroup, orderBy |-> orderBy,
   filters |-> filters, limit |-> limit, startAt |-> startAt, endAt |-> endAt]

TargetIsDocumentQuery(t) ==
  isDocumentKey(t.path) /\ ~IsSet(t.collectionGroup) /\ Len(t.filters) = 0

(***************************************************************************)
(* Query: the readonly attributes are the record QueryAttrs; the two       *)
(* memoized fields are kept beside it.                                     *)
(***************************************************************************)
First == "F"
Last == "L"

QueryAttrs(path, collectionGroup, explicitOrderBy, filters, limit, limitType, startAt, endAt) ==
  [path |-> path, collectionGroup |-> collectionGroup,
   explicitOrderBy |-> explicitOrderBy, filters |-> filters, limit |-> limit,
   limitType |-> limitType, startAt |-> startAt, endAt |-> endAt]

getFirstOrderByField(q) ==
  IF Len(q.explicitOrderBy) > 0 THEN Some(q.explicitOrderBy[1].field) ELSE None

getInequalityFilterField(q) ==
  LET idx == {i \in 1..Len(q.filters) : isInequality(q.filters[i])}
  IN IF idx = {} THEN None
     ELSE Some(q.filters[CHOOSE i \in idx : \A j \in idx : i <= j].field)

\* The debugAssert of the orderBy getter is reached and fails.
OrderByAssertFails(q) ==
  LET inequalityField == getInequalityFilterField(q)
      firstOrderByField == getFirstOrderByField(q)
  IN /\ ~(IsSet(inequalityField) /\ ~IsSet(firstOrderByField))
     /\ ~(\/ ~IsSet(inequalityField)
          \/ (IsSet(firstOrderByField) /\ inequalityField = firstOrderByField))

\* ResolvedOrderBy whose synthetic key clause is always ascending.
ResolvedOrderBy_KeyAscending(q) ==
  LET inequalityField == getInequalityFilterField(q)
      firstOrderByField == getFirstOrderByField(q)
      explicit == q.explicitOrderBy
      foundKeyOrdering == \E i \in 1..Len(explicit) : isKeyField(explicit[i].field)
  IN IF IsSet(inequalityField) /\ ~IsSet(firstOrderByField)
     THEN (IF ~isKeyField(Get(inequalityField))
           THEN <<OrderBy(Get(inequalityField), ASCENDING)>>
           ELSE <<>>)
          \o <<OrderBy(KeyField, ASCENDING)>>
     ELSE IF foundKeyOrdering THEN explicit
          ELSE explicit \o <<OrderBy(KeyField, ASCENDING)>>

\* ResolvedOrderBy without the trailing key clause of the else branch.
ResolvedOrderBy_NoSyntheticKey(q) ==
  LET inequalityField == getInequalityFilterField(q)
      firstOrderByField == getFirstOrderByField(q)
  IN IF IsSet(inequalityField) /\ ~IsSet(firstOrderByField)
     THEN (IF ~isKeyField(Get(inequalityField))
           THEN <<OrderBy(Get(inequalityField), ASCENDING)>>
           ELSE <<>>)
          \o <<OrderBy(KeyField, ASCENDING)>>
     ELSE q.explicitOrderBy

\* The sequence the orderBy getter builds when its assertion holds.
ResolvedOrderBy(q) ==
  LET inequalityField == getInequalityFilterField(q)
      firstOrderByField == getFirstOrderByField(q)
      explicit == q.explicitOrderBy
      foundKeyOrdering == \E i \in 1..Len(explicit) : isKeyField(explicit[i].field)
      lastDirection ==
        IF Len(explicit) > 0 THEN explicit[Len(explicit)].dir ELSE ASCENDING
  IN IF IsSet(inequalityField) /\ ~IsSet(firstOrderByField)
     THEN (IF ~isKeyField(Get(inequalityField))
           THEN <<OrderBy(Get(inequalityField), ASCENDING)>>
           ELSE <<>>)
          \o <<OrderBy(KeyField, ASCENDING)>>
     ELSE IF foundKeyOrdering THEN explicit
          ELSE explicit \o <<OrderBy(KeyField, lastDirection)>>

\* A Query object: attributes and memoized fields.
Obj(q, mo, mt) == [q |-> q, memoizedOrderBy |-> mo, memoizedTarget |-> mt]

\* get orderBy() on object o: the object afterwards, and whether it threw.
\* The getter stores [] before it asserts, so a failed assertion leaves [].
GetOrderBy(o) ==
  IF IsSet(o.memoizedOrderBy) THEN [obj |-> o, err |-> FALSE]
  ELSE IF OrderByAssertFails(o.q)
       THEN [obj |-> [o EXCEPT !.memoizedOrderBy = Some(<<>>)], err |-> TRUE]
       ELSE [obj |-> [o EXCEPT !.memoizedOrderBy = Some(ResolvedOrderBy(o.q))],
             err |-> FALSE]

FlipDir(dir) == IF dir = DESCENDING THEN ASCENDING ELSE DESCENDING

FlipBound(b) ==
  IF IsSet(b) THEN Some(Bound(Get(b).position, ~Get(b).before)) ELSE None

\* BuildTarget that swaps the cursors without inverting their before flags.
BuildTarget_NoFlagFlip(q, orderBy) ==
  IF q.limitType = First
  THEN Target(q.path, q.collectionGroup, orderBy, q.filters, q.limit,
              q.startAt, q.endAt)
  ELSE Target(q.path, q.collectionGroup,
              [i \in 1..Len(orderBy) |->
                 OrderBy(orderBy[i].field, FlipDir(orderBy[i].dir))],
              q.filters, q.limit, q.endAt, q.startAt)

\* BuildTarget that swaps and inverts the cursors but keeps the directions.
BuildTarget_NoReverse(q, orderBy) ==
  IF q.limitType = First
  THEN Target(q.path, q.collectionGroup, orderBy, q.filters, q.limit,
              q.startAt, q.endAt)
  ELSE Target(q.path, q.collectionGroup, orderBy, q.filters, q.limit,
              FlipBound(q.endAt), FlipBound(q.startAt))

\* The Target that toTarget builds from the attributes and this.orderBy.
BuildTarget(q, orderBy) ==
  IF q.limitType = First
  THEN Target(q.path, q.collectionGroup, orderBy, q.filters, q.limit,
              q.startAt, q.endAt)
  ELSE LET orderBys ==
             [i \in 1..Len(orderBy) |->
                OrderBy(orderBy[i].field, FlipDir(orderBy[i].dir))]
           startAt == FlipBound(q.endAt)
           endAt == FlipBound(q.startAt)
       IN Target(q.path, q.collectionGroup, orderBys, q.filters, q.limit,
                 startAt, endAt)

\* toTarget that reverses the memoized ordering in place for limit-to-last.
ToTarget_ReversesInPlace(o) ==
  IF IsSet(o.memoizedTarget) THEN [obj |-> o, err |-> FALSE]
  ELSE LET g == GetOrderBy(o)
       IN IF g.err THEN g
          ELSE LET t == BuildTarget(o.q, Get(g.obj.memoizedOrderBy))
               IN [obj |-> [g.obj EXCEPT !.memoizedTarget = Some(t),
                                         !.memoizedOrderBy = Some(t.orderBy)],
                   err |-> FALSE]

\* toTarget() on object o: the object afterwards, and whether it threw.
ToTarget(o) ==
  IF IsSet(o.memoizedTarget) THEN [obj |-> o, err |-> FALSE]
  ELSE LET g == GetOrderBy(o)
       IN IF g.err THEN g
          ELSE [obj |-> [g.obj EXCEPT !.memoizedTarget =
                           Some(BuildTarget(o.q, Get(g.obj.memoizedOrderBy)))],
                err |-> FALSE]

\* assertValidBound(bound) on object o.
AssertValidBound(o, bound) ==
  LET g == GetOrderBy(o)
  IN IF g.err THEN g
     ELSE [obj |-> g.obj,
           err |-> ~(Len(bound.position) <= Len(Get(g.obj.memoizedOrderBy)))]

\* new Query(...) that validates the start bound only.
NewQuery_StartOnly(q) ==
  LET o0 == Obj(q, None, None)
  IN IF IsSet(q.startAt) THEN AssertValidBound(o0, Get(q.startAt))
     ELSE [obj |-> o0, err |-> FALSE]

\* new Query(...): the constructed object, and whether the constructor threw.
NewQuery(q) ==
  LET o0 == Obj(q, None, None)
      s == IF IsSet(q.startAt) THEN AssertValidBound(o0, Get(q.startAt))
           ELSE [obj |-> o0, err |-> FALSE]
  IN IF s.err THEN s
     ELSE IF IsSet(q.endAt) THEN AssertValidBound(s.obj, Get(q.endAt))
          ELSE s

atPath(path) == QueryAttrs(path, None, <<>>, <<>>, None, First, None, None)

(***************************************************************************)
(* Query.matches and its four checks.                                      *)
(***************************************************************************)
matchesPathAndCollectionGroup(q, doc) ==
  LET docPath == doc.key
  IN IF IsSet(q.collectionGroup)
     THEN hasCollectionId(doc.key, Get(q.collectionGroup)) /\ isPrefixOf(q.path, docPath)
     ELSE IF isDocumentKey(q.path)
          THEN q.path = docPath
          ELSE isImmediateParentOf(q.path, docPath)

\* matchesOrderBy that tests the first explicit clause only.
matchesOrderBy_FirstOnly(q, doc) ==
  \A i \in 1..Len(q.explicitOrderBy) :
    i = 1 =>
      \/ isKeyField(q.explicitOrderBy[i].field)
      \/ IsSet(DocField(doc, q.explicitOrderBy[i].field))

matchesOrderBy(q, doc) ==
  \A i \in 1..Len(q.explicitOrderBy) :
    ~(/\ ~isKeyField(q.explicitOrderBy[i].field)
      /\ ~IsSet(DocField(doc, q.explicitOrderBy[i].field)))

matchesFilters(q, doc) ==
  \A i \in 1..Len(q.filters) : FilterMatches(q.filters[i], doc)

\* matchesBounds that rejects the documents the start bound sorts before.
matchesBounds_StartInverted(q, orderBy, doc) ==
  LET endPart ==
        IF IsSet(q.endAt)
        THEN IF sortsBeforeFails(Get(q.endAt), orderBy, doc)
             THEN [err |-> TRUE, val |-> FALSE]
             ELSE [err |-> FALSE,
                   val |-> ~sortsBeforeDocument(Get(q.endAt), orderBy, doc)]
        ELSE [err |-> FALSE, val |-> TRUE]
  IN IF IsSet(q.startAt)
     THEN IF sortsBeforeFails(Get(q.startAt), orderBy, doc)
          THEN [err |-> TRUE, val |-> FALSE]
          ELSE IF sortsBeforeDocument(Get(q.startAt), orderBy, doc)
               THEN [err |-> FALSE, val |-> FALSE]
               ELSE endPart
     ELSE endPart

\* matchesBounds with this.orderBy = orderBy: whether sortsBeforeDocument
\* failed an assertion, and the value returned otherwise.
matchesBounds(q, orderBy, doc) ==
  LET endPart ==
        IF IsSet(q.endAt)
        THEN IF sortsBeforeFails(Get(q.endAt), orderBy, doc)
             THEN [err |-> TRUE, val |-> FALSE]
             ELSE [err |-> FALSE,
                   val |-> ~sortsBeforeDocument(Get(q.endAt), orderBy, doc)]
        ELSE [err |-> FALSE, val |-> TRUE]
  IN IF IsSet(q.startAt)
     THEN IF sortsBeforeFails(Get(q.startAt), orderBy, doc)
          THEN [err |-> TRUE, val |-> FALSE]
          ELSE IF ~sortsBeforeDocument(Get(q.startAt), orderBy, doc)
               THEN [err |-> FALSE, val |-> FALSE]
               ELSE endPart
     ELSE endPart

\* Matches without the filter check.
Matches_NoFilters(o, doc) ==
  IF ~( /\ matchesPathAndCollectionGroup(o.q, doc)
        /\ matchesOrderBy(o.q, doc))
  THEN [obj |-> o, err |-> FALSE, val |-> FALSE]
  ELSE IF ~IsSet(o.q.startAt) /\ ~IsSet(o.q.endAt)
       THEN [obj |-> o, err |-> FALSE, val |-> TRUE]
       ELSE LET g == GetOrderBy(o)
            IN IF g.err THEN [obj |-> g.obj, err |-> TRUE, val |-> FALSE]
               ELSE LET b == matchesBounds(o.q, Get(g.obj.memoizedOrderBy), doc)
                    IN [obj |-> g.obj, err |-> b.err, val |-> b.val]

\* matches(doc) on object o: the object afterwards, whether it threw, and the
\* value returned otherwise. The four checks short-circuit in order.
Matches(o, doc) ==
  IF ~( /\ matchesPathAndCollectionGroup(o.q, doc)
        /\ matchesOrderBy(o.q, doc)
        /\ matchesFilters(o.q, doc))
  THEN [obj |-> o, err |-> FALSE, val |-> FALSE]
  ELSE IF ~IsSet(o.q.startAt) /\ ~IsSet(o.q.endAt)
       THEN [obj |-> o, err |-> FALSE, val |-> TRUE]
       ELSE LET g == GetOrderBy(o)
            IN IF g.err THEN [obj |-> g.obj, err |-> TRUE, val |-> FALSE]
               ELSE LET b == matchesBounds(o.q, Get(g.obj.memoizedOrderBy), doc)
                    IN [obj |-> g.obj, err |-> b.err, val |-> b.val]

(***************************************************************************)
(* Query.docComparator.                                                    *)
(***************************************************************************)
\* The failure of the debugAssert that closes docComparator.
KeyAssert == "assert comparedOnKeyField"

\* The loop of docComparator from clause i on, and the assertion after it.
RECURSIVE DocLoop(_, _, _, _, _)
DocLoop(orderBy, d1, d2, i, comparedOnKeyField) ==
  IF i > Len(orderBy)
  THEN [err |-> IF comparedOnKeyField THEN "none" ELSE KeyAssert, val |-> 0]
  ELSE IF compareFails(orderBy[i], d1, d2)
       THEN [err |-> "assert", val |-> 0]
       ELSE LET comp == compare(orderBy[i], d1, d2)
            IN IF comp # 0
               THEN [err |-> "none", val |-> comp]
               ELSE DocLoop(orderBy, d1, d2, i + 1,
                            comparedOnKeyField \/ isKeyField(orderBy[i].field))

\* docComparator that returns the comparison of the first clause.
DocComparator_FirstClause(o, d1, d2) ==
  LET g == GetOrderBy(o)
  IN IF g.err THEN [obj |-> g.obj, err |-> "assert", val |-> 0]
     ELSE LET first == Get(g.obj.memoizedOrderBy)[1]
          IN IF compareFails(first, d1, d2)
             THEN [obj |-> g.obj, err |-> "assert", val |-> 0]
             ELSE [obj |-> g.obj, err |-> "none",
                   val |-> compare(first, d1, d2)]

\* docComparator(d1, d2) on object o: the object afterwards, the error
\* thrown, and the value returned.
DocComparator(o, d1, d2) ==
  LET g == GetOrderBy(o)
  IN IF g.err THEN [obj |-> g.obj, err |-> "assert", val |-> 0]
     ELSE LET r == DocLoop(Get(g.obj.memoizedOrderBy), d1, d2, 1, FALSE)
          IN [obj |-> g.obj, err |-> r.err, val |-> r.val]

(***************************************************************************)
(* State: the Query the program holds (attributes q and its two memoized   *)
(* fields), the last operation with its arguments and result, and the      *)
(* error it threw ("none", "assert", KeyAssert, "invalid-argument").       *)
(***************************************************************************)
VARIABLES q, memoizedOrderBy, memoizedTarget, op, args, ret, err

\* The callers that are inside a call of orderBy or toTarget on the Query,
\* each with its position in the call (used when calls overlap).
VARIABLES callers

\* The MockConnection of the spec tests (spec_test_components.ts), with the
\* promises waitForWriteRequest has returned and the write requests the
\* write stream has accepted.
VARIABLES connection

vars ==
  <<q, memoizedOrderBy, memoizedTarget, op, args, ret, err, callers, connection>>

NoConnection == <<>>

\* No caller is inside a call.
NoCallers == <<>>

this == Obj(q, memoizedOrderBy, memoizedTarget)

\* The program holds object o after operation name.
Holds(o, name, threw) ==
  /\ q' = o.q
  /\ memoizedOrderBy' = o.memoizedOrderBy
  /\ memoizedTarget' = o.memoizedTarget
  /\ op' = name
  /\ err' = IF threw THEN "assert" ELSE "none"
  /\ callers' = callers
  /\ connection' = connection

\* A JavaScript array: the object it is and the elements it holds. The
\* arrays of the receiver are the objects "this.explicitOrderBy" and
\* "this.filters"; slice and concat return an array that is a new object.
Array(object, elems) == [object |-> object, elems |-> elems]
slice(array) == Array("new", array.elems)
concat(array, x) == Array("new", Append(array.elems, x))

\* A builder ends with new Query(...) on the arguments it passes: the
\* program goes on with the new Query, or the constructor throws and the
\* receiver o is what is left. args keeps the attributes of the receiver
\* as the builder leaves them, and which array objects the new Query holds.
Construct(o, attrs, explicitOrderBy, filters, name) ==
  LET n == NewQuery([attrs EXCEPT !.explicitOrderBy = explicitOrderBy.elems,
                                  !.filters = filters.elems])
  IN /\ Holds(IF n.err THEN o ELSE n.obj, name, n.err)
     /\ args' = IF n.err THEN None
                ELSE Some([receiver |-> o.q,
                           explicitOrderBy |-> explicitOrderBy.object,
                           filters |-> filters.object])
     /\ ret' = None

(***************************************************************************)
(* Inputs of the builder operations.                                       *)
(***************************************************************************)
Fields == {KeyField, "a", "b"}
Directions == {ASCENDING, DESCENDING}
OrderByInputs ==
  {OrderBy(f, d) : f \in Fields, d \in Directions}
  \ {OrderBy("b", DESCENDING), OrderBy(KeyField, ASCENDING)}

KeyX == <<"c", "x">>
KeyY == <<"c", "y">>
KeyZ == <<"c", "x", "c", "z">>
KeyD == <<"d", "x">>

FilterInputs ==
  {Get(create("a", GREATER_THAN, Num(1)).filter),
   Get(create("b", LESS_THAN_OR_EQUAL, Num(1)).filter),
   Get(create("b", EQUAL, Num(1)).filter),
   Get(create(KeyField, GREATER_THAN_OR_EQUAL, Ref(KeyX)).filter)}

LimitInputs == {Some(2)}

\* A position longer than any resolved ordering of the model.
LongPosition == [i \in 1..(MaxConstraints + 2) |-> Num(1)]

BoundInputs ==
  {Bound(<<Num(1)>>, TRUE), Bound(<<Num(1), Ref(KeyX)>>, FALSE),
   Bound(LongPosition, TRUE)}

CollectionPath == <<"c">>
EMPTY_PATH == <<>>

InitialQueries ==
  {atPath(CollectionPath), atPath(KeyX),
   QueryAttrs(EMPTY_PATH, Some("c"), <<>>, <<>>, None, First, None, None)}

\* The number of constraints Query q carries.
Constraints(attrs) ==
  Len(attrs.explicitOrderBy) + Len(attrs.filters)
  + (IF IsSet(attrs.limit) \/ attrs.limitType = Last THEN 1 ELSE 0)
  + (IF IsSet(attrs.startAt) THEN 1 ELSE 0)
  + (IF IsSet(attrs.endAt) THEN 1 ELSE 0)

Init ==
  /\ q \in InitialQueries
  /\ memoizedOrderBy = None
  /\ memoizedTarget = None
  /\ op = "new"
  /\ args = None
  /\ ret = None
  /\ err = "none"
  /\ callers = NoCallers
  /\ connection = NoConnection

(***************************************************************************)
(* Operations of Query.                                                    *)
(***************************************************************************)
getOrderBy ==
  /\ err = "none"
  /\ LET g == GetOrderBy(this)
     IN /\ Holds(g.obj, "orderBy", g.err)
        /\ ret' = IF g.err THEN None ELSE g.obj.memoizedOrderBy
  /\ args' = None

toTarget ==
  /\ err = "none"
  /\ LET t == ToTarget(this)
     IN /\ Holds(t.obj, "toTarget", t.err)
        /\ ret' = IF t.err THEN None ELSE t.obj.memoizedTarget
  /\ args' = None

\* addFilter that pushes the filter onto the receiver's own filter array
\* and hands that array to the new Query.
addFilter_InPlace(filter) ==
  /\ err = "none"
  /\ Constraints(q) < MaxConstraints
  /\ LET ineq == getInequalityFilterField(q)
         one == \/ ~IsSet(ineq)
                \/ ~isInequality(filter)
                \/ filter.field = Get(ineq)
         t == ToTarget(this)
         pushed == [q EXCEPT !.filters = Append(q.filters, filter)]
     IN IF ~one
        THEN Holds(this, "addFilter", TRUE) /\ args' = None /\ ret' = None
        ELSE IF t.err \/ TargetIsDocumentQuery(Get(t.obj.memoizedTarget))
        THEN Holds(t.obj, "addFilter", TRUE) /\ args' = None /\ ret' = None
        ELSE Construct([t.obj EXCEPT !.q = pushed], pushed,
                       slice(Array("this.explicitOrderBy", q.explicitOrderBy)),
                       Array("this.filters", pushed.filters), "addFilter")

addFilter(filter) ==
  /\ err = "none"
  /\ Constraints(q) < MaxConstraints
  /\ LET ineq == getInequalityFilterField(q)
         one == \/ ~IsSet(ineq)
                \/ ~isInequality(filter)
                \/ filter.field = Get(ineq)
         t == ToTarget(this)   \* this.isDocumentQuery()
         newFilters == concat(Array("this.filters", q.filters), filter)
     IN IF ~one
        THEN Holds(this, "addFilter", TRUE) /\ args' = None /\ ret' = None
        ELSE IF t.err \/ TargetIsDocumentQuery(Get(t.obj.memoizedTarget))
        THEN Holds(t.obj, "addFilter", TRUE) /\ args' = None /\ ret' = None
        ELSE Construct(t.obj, q,
                       slice(Array("this.explicitOrderBy", q.explicitOrderBy)),
                       newFilters, "addFilter")

addOrderBy(orderBy) ==
  /\ err = "none"
  /\ Constraints(q) < MaxConstraints
  /\ LET newOrderBy ==
           concat(Array("this.explicitOrderBy", q.explicitOrderBy), orderBy)
     IN IF ~(~IsSet(q.startAt) /\ ~IsSet(q.endAt))
        THEN Holds(this, "addOrderBy", TRUE) /\ args' = None /\ ret' = None
        ELSE Construct(this, q, newOrderBy,
                       slice(Array("this.filters", q.filters)), "addOrderBy")

withLimitToFirst(limit) ==
  /\ err = "none"
  /\ Constraints([q EXCEPT !.limit = limit, !.limitType = First]) <= MaxConstraints
  /\ Construct(this, [q EXCEPT !.limit = limit, !.limitType = First],
               slice(Array("this.explicitOrderBy", q.explicitOrderBy)),
               slice(Array("this.filters", q.filters)), "withLimitToFirst")

withLimitToLast(limit) ==
  /\ err = "none"
  /\ Constraints([q EXCEPT !.limit = limit, !.limitType = Last]) <= MaxConstraints
  /\ Construct(this, [q EXCEPT !.limit = limit, !.limitType = Last],
               slice(Array("this.explicitOrderBy", q.explicitOrderBy)),
               slice(Array("this.filters", q.filters)), "withLimitToLast")

withStartAt(bound) ==
  /\ err = "none"
  /\ Constraints([q EXCEPT !.startAt = Some(bound)]) <= MaxConstraints
  /\ Construct(this, [q EXCEPT !.startAt = Some(bound)],
               slice(Array("this.explicitOrderBy", q.explicitOrderBy)),
               slice(Array("this.filters", q.filters)), "withStartAt")

withEndAt(bound) ==
  /\ err = "none"
  /\ Constraints([q EXCEPT !.endAt = Some(bound)]) <= MaxConstraints
  /\ Construct(this, [q EXCEPT !.endAt = Some(bound)],
               slice(Array("this.explicitOrderBy", q.explicitOrderBy)),
               slice(Array("this.filters", q.filters)), "withEndAt")

asCollectionQueryAtPath(path) ==
  /\ err = "none"
  /\ IsSet(q.collectionGroup)
  /\ Construct(this, [q EXCEPT !.path = path, !.collectionGroup = None],
               slice(Array("this.explicitOrderBy", q.explicitOrderBy)),
               slice(Array("this.filters", q.filters)),
               "asCollectionQueryAtPath")

Next ==
  \/ getOrderBy
  \/ toTarget
  \/ \E filter \in FilterInputs : addFilter(filter)
  \/ \E orderBy \in OrderByInputs : addOrderBy(orderBy)
  \/ \E limit \in LimitInputs : withLimitToFirst(limit)
  \/ \E limit \in LimitInputs : withLimitToLast(limit)
  \/ \E bound \in BoundInputs : withStartAt(bound)
  \/ \E bound \in BoundInputs : withEndAt(bound)
  \/ asCollectionQueryAtPath(CollectionPath)

Spec == Init /\ [][Next]_vars

(***************************************************************************)
(* Claims about the resolved ordering and the compiled Target, checked     *)
(* under Spec.                                                             *)
(***************************************************************************)
HasKeyClause(orderBy) == \E i \in 1..Len(orderBy) : isKeyField(orderBy[i].field)
EndsWithKey(orderBy) == Len(orderBy) > 0 /\ isKeyField(orderBy[Len(orderBy)].field)

\* C1 as stated: whenever a Query holds a resolved ordering, the ordering is
\* non-empty and its last clause is a key-field clause.
C1_EndsWithKey ==
  (err = "none" /\ IsSet(memoizedOrderBy)) => EndsWithKey(Get(memoizedOrderBy))

\* C1 amended: whenever a Query holds a resolved ordering, the ordering is
\* non-empty and has a key-field clause; its last clause is a key-field
\* clause exactly when no explicit clause names the key field or the last
\* explicit clause does.
C1_HasKeyClause ==
  (err = "none" /\ IsSet(memoizedOrderBy)) =>
    LET resolved == Get(memoizedOrderBy)
    IN /\ Len(resolved) > 0
       /\ HasKeyClause(resolved)
       /\ EndsWithKey(resolved) <=>
            (~HasKeyClause(q.explicitOrderBy) \/ EndsWithKey(q.explicitOrderBy))

\* The getter returned the ordering of a Query whose explicit clauses name
\* the key field first and another field after it.
C1_Witness ==
  /\ op = "orderBy" /\ err = "none"
  /\ Len(q.explicitOrderBy) = 2
  /\ isKeyField(q.explicitOrderBy[1].field)
  /\ ~isKeyField(q.explicitOrderBy[2].field)
  /\ ret = Some(q.explicitOrderBy)

\* The Target of the same Query switched to limit-to-first.
FirstTarget(attrs) ==
  Get(ToTarget(NewQuery([attrs EXCEPT !.limitType = First]).obj).obj.memoizedTarget)

Inverse(orderBy1, orderBy2) ==
  /\ Len(orderBy1) = Len(orderBy2)
  /\ \A i \in 1..Len(orderBy1) :
       /\ orderBy1[i].field = orderBy2[i].field
       /\ orderBy1[i].dir # orderBy2[i].dir

Flipped(b1, b2) ==
  IF IsSet(b2)
  THEN /\ IsSet(b1)
       /\ Get(b1).position = Get(b2).position
       /\ Get(b1).before = ~Get(b2).before
  ELSE ~IsSet(b1)

\* C2: the Target returned by toTarget. For limit type Last it has the path,
\* collection group, filters and limit of the limit-to-first Target, that
\* Target's ordering with every direction inverted, the end bound as start
\* and the start bound as end, each with its before flag negated. For limit
\* type First it carries the resolved ordering, filters, limit and bounds
\* of the Query unchanged.
C2_LastFirstDuality ==
  (op = "toTarget" /\ err = "none") =>
    LET t == Get(ret)
    IN IF q.limitType = Last
       THEN LET f == FirstTarget(q)
            IN /\ t.path = f.path
               /\ t.collectionGroup = f.collectionGroup
               /\ t.filters = f.filters
               /\ t.limit = f.limit /\ t.limit = q.limit
               /\ Inverse(t.orderBy, f.orderBy)
               /\ Flipped(t.startAt, q.endAt)
               /\ Flipped(t.endAt, q.startAt)
       ELSE /\ t.path = q.path
            /\ t.collectionGroup = q.collectionGroup
            /\ t.orderBy = Get(memoizedOrderBy)
            /\ t.filters = q.filters
            /\ t.limit = q.limit
            /\ t.startAt = q.startAt
            /\ t.endAt = q.endAt

\* toTarget returned for a limit-to-last Query with both bounds set.
C2_Witness ==
  /\ op = "toTarget" /\ err = "none"
  /\ q.limitType = Last /\ IsSet(q.limit)
  /\ IsSet(q.startAt) /\ IsSet(q.endAt)
  /\ Get(q.startAt) # Get(q.endAt)
  /\ Len(q.explicitOrderBy) > 0

(***************************************************************************)
(* FieldFilter.create as an operation: SpecFilter draws its arguments      *)
(* (field, operator, operand) in the initial state and applies it.         *)
(***************************************************************************)
Nums == {Num(n) : n \in 1..MaxVal}

CreateValues ==
  {NullValue, NanValue, Ref(KeyX), Arr(<<>>), Arr(<<Num(1)>>),
   Arr(<<Ref(KeyX), Ref(KeyY)>>), Arr(<<Ref(KeyX), Num(1)>>)} \cup Nums

CreateInputs ==
  {<<field, operator, value>> :
     field \in Fields, operator \in Operators, value \in CreateValues}

InitFilter ==
  /\ q = atPath(CollectionPath)
  /\ memoizedOrderBy = None
  /\ memoizedTarget = None
  /\ op = "new"
  /\ args \in CreateInputs
  /\ ret = None
  /\ err = "none"
  /\ callers = NoCallers
  /\ connection = NoConnection

FieldFilter_create ==
  /\ op = "new"
  /\ LET c == create(args[1], args[2], args[3])
     IN /\ ret' = c.filter
        /\ err' = c.err
  /\ op' = "create"
  /\ UNCHANGED <<q, memoizedOrderBy, memoizedTarget, args, callers, connection>>

NextFilter == FieldFilter_create

SpecFilter == InitFilter /\ [][NextFilter]_vars

IsNullOrNan(v) == isNullValue(v) \/ isNanValue(v)

\* C8 as stated: for any field, create with a null or NaN operand throws
\* invalid-argument and returns no filter when the operator is not ==, and
\* returns a generic equality filter when it is ==.
C8_NullNanAnyField ==
  (op = "create" /\ IsNullOrNan(args[3])) =>
    IF args[2] # EQUAL
    THEN err = "invalid-argument" /\ ret = None
    ELSE err = "none" /\ ret = Some(Filter("FieldFilter", args[1], EQUAL, args[3]))

\* C8 amended: that holds for every field other than the key field; on the
\* key field a null or NaN operand fails an assertion of create for every
\* operator, == included, and no filter is returned.
C8_NullNanNonKeyField ==
  (op = "create" /\ IsNullOrNan(args[3])) =>
    IF isKeyField(args[1])
    THEN err = "assert" /\ ret = None
    ELSE IF args[2] # EQUAL
         THEN err = "invalid-argument" /\ ret = None
         ELSE /\ err = "none"
              /\ ret = Some(Filter("FieldFilter", args[1], EQUAL, args[3]))

\* create has thrown invalid-argument for a NaN operand under an operator
\* other than == on a field other than the key field.
C8_Witness ==
  /\ op = "create" /\ err = "invalid-argument"
  /\ isNanValue(args[3]) /\ args[2] = IN_ /\ ~isKeyField(args[1])

\* The operand is semantically incompatible with the field and operator, in
\* the three ways C9 lists.
Incompatible(field, operator, value) ==
  \/ ~isArray(value) /\ operator \in {IN_, ARRAY_CONTAINS_ANY}
  \/ isKeyField(field) /\ operator \in {ARRAY_CONTAINS, ARRAY_CONTAINS_ANY}
  \/ isKeyField(field) /\ operator # IN_ /\ ~isReferenceValue(value)

AllReferences(value) ==
  isArray(value) /\ \A i \in 1..Len(value.e) : isReferenceValue(value.e[i])

\* The variant selected by field kind and operator.
Variant(field, operator) ==
  IF isKeyField(field)
  THEN (IF operator = IN_ THEN "KeyFieldInFilter" ELSE "KeyFieldFilter")
  ELSE CASE operator = ARRAY_CONTAINS -> "ArrayContainsFilter"
         [] operator = IN_ -> "InFilter"
         [] operator = ARRAY_CONTAINS_ANY -> "ArrayContainsAnyFilter"
         [] OTHER -> "FieldFilter"

\* C9 as stated: create throws invalid-argument for every incompatible
\* operand, and in every other case returns the variant selected by field
\* kind and operator.
C9_IncompatibleInvalidArgument ==
  (op = "create" /\ ~IsNullOrNan(args[3])) =>
    IF Incompatible(args[1], args[2], args[3])
    THEN err = "invalid-argument" /\ ret = None
    ELSE /\ err = "none"
         /\ ret = Some(Filter(Variant(args[1], args[2]), args[1], args[2], args[3]))

\* C9 amended: for an operand that is neither null nor NaN, create fails an
\* assertion (it does not throw invalid-argument) and returns no filter for
\* every incompatible operand, and also for operator in on the key field
\* with an array that has a non-reference element; in every other case it
\* returns the variant selected by field kind and operator.
C9_IncompatibleAssert ==
  (op = "create" /\ ~IsNullOrNan(args[3])) =>
    IF \/ Incompatible(args[1], args[2], args[3])
       \/ (isKeyField(args[1]) /\ args[2] = IN_ /\ ~AllReferences(args[3]))
    THEN err = "assert" /\ ret = None
    ELSE /\ err = "none"
         /\ ret = Some(Filter(Variant(args[1], args[2]), args[1], args[2], args[3]))

\* create has failed its assertion for a number under operator in on a
\* field other than the key field.
C9_Witness ==
  /\ op = "create" /\ err = "assert" /\ ret = None
  /\ args[3] = Num(1) /\ args[2] = IN_ /\ ~isKeyField(args[1])

(***************************************************************************)
(* Query.matches as an operation: SpecMatch draws a constructed Query in   *)
(* the initial state and applies orderBy, toTarget and matches to it.      *)
(***************************************************************************)
AVals == {None, Some(Arr(<<Num(1)>>))} \cup {Some(n) : n \in Nums}
BVals == {None, Some(Num(1))}

Docs ==
  {Doc(k, a, b) : k \in {KeyX, KeyY}, a \in AVals, b \in BVals}
  \cup {Doc(KeyZ, Some(Num(MaxVal)), Some(Num(1))),
        Doc(KeyD, Some(Num(MaxVal)), Some(Num(1)))}

Made(field, operator, value) == Get(create(field, operator, value).filter)

MatchOrderBys ==
  {<<>>,
   <<OrderBy("a", ASCENDING)>>,
   <<OrderBy("a", DESCENDING)>>,
   <<OrderBy("b", ASCENDING)>>,
   <<OrderBy(KeyField, DESCENDING)>>,
   <<OrderBy("a", DESCENDING), OrderBy("b", ASCENDING)>>,
   <<OrderBy("b", ASCENDING), OrderBy("a", ASCENDING)>>,
   <<OrderBy("a", ASCENDING), OrderBy(KeyField, DESCENDING)>>,
   <<OrderBy(KeyField, ASCENDING), OrderBy("a", ASCENDING)>>}

BoundFilters ==
  {<<>>,
   <<Made("a", GREATER_THAN, Num(1))>>,
   <<Made("b", EQUAL, Num(1))>>}

MatchFilters ==
  BoundFilters \cup
  {<<Made("a", GREATER_THAN, Num(1)), Made("b", EQUAL, Num(1))>>,
   <<Made("a", GREATER_THAN_OR_EQUAL, Num(1)), Made("a", LESS_THAN, Num(MaxVal))>>,
   <<Made(KeyField, GREATER_THAN_OR_EQUAL, Ref(KeyY))>>,
   <<Made(KeyField, IN_, Arr(<<Ref(KeyX), Ref(KeyZ)>>))>>,
   <<Made("a", IN_, Arr(<<Num(1), Num(MaxVal)>>))>>,
   <<Made("a", ARRAY_CONTAINS, Num(1))>>,
   <<Made("a", ARRAY_CONTAINS_ANY, Arr(<<Num(1)>>))>>}

MatchScopes ==
  {<<CollectionPath, None>>, <<KeyX, None>>, <<EMPTY_PATH, Some("c")>>}

PositionInputs ==
  {<<n>> : n \in Nums} \cup {<<Num(1), Ref(KeyX)>>, <<Ref(KeyY)>>}

MatchBounds ==
  {None} \cup {Some(Bound(p, b)) : p \in PositionInputs, b \in BOOLEAN}

\* Queries without bounds, in every scope and with every filter variant.
ScopeQueries ==
  {QueryAttrs(s[1], s[2], o, f, None, First, None, None) :
     s \in MatchScopes, o \in MatchOrderBys, f \in MatchFilters}

\* Queries on one collection with bounds, limit-to-first and limit-to-last.
BoundQueries ==
  {QueryAttrs(CollectionPath, None, o, f, Some(2), t, sa, ea) :
     o \in MatchOrderBys, f \in BoundFilters, t \in {First, Last},
     sa \in MatchBounds, ea \in MatchBounds}

\* The Queries of both families that new Query(...) constructs.
MatchQueries == {attrs \in ScopeQueries \cup BoundQueries : ~NewQuery(attrs).err}

InitMatch ==
  /\ q \in MatchQueries
  /\ memoizedOrderBy = NewQuery(q).obj.memoizedOrderBy
  /\ memoizedTarget = None
  /\ op = "new"
  /\ args = None
  /\ ret = None
  /\ err = "none"
  /\ callers = NoCallers
  /\ connection = NoConnection

\* matches leaves the Query as it is, so a behaviour applies it to one
\* document: a second application reaches what a first one reaches.
matches(doc) ==
  /\ err = "none"
  /\ op # "matches"
  /\ LET m == Matches(this, doc)
     IN /\ Holds(m.obj, "matches", m.err)
        /\ ret' = IF m.err THEN None ELSE Some(m.val)
  /\ args' = <<doc>>

NextMatch ==
  \/ getOrderBy
  \/ toTarget
  \/ \E doc \in Docs : matches(doc)

SpecMatch == InitMatch /\ [][NextMatch]_vars

(***************************************************************************)
(* Claims about matching, checked under SpecMatch. D is the document       *)
(* matches was applied to.                                                 *)
(***************************************************************************)
D == args[1]
Matched == op = "matches" /\ err = "none"

HasOrderingFields(orderBy, doc) ==
  \A i \in 1..Len(orderBy) :
    isKeyField(orderBy[i].field) \/ IsSet(DocField(doc, orderBy[i].field))

\* No assertion of sortsBeforeDocument fails for bound b, if set.
Comparable(b, orderBy, doc) == IsSet(b) => ~sortsBeforeFails(Get(b), orderBy, doc)

\* The document lies within the bounds: start sorts before it, end does not.
Within(startAt, endAt, orderBy, doc) ==
  /\ IsSet(startAt) => sortsBeforeDocument(Get(startAt), orderBy, doc)
  /\ IsSet(endAt) => ~sortsBeforeDocument(Get(endAt), orderBy, doc)

\* C3: for a limit-to-last Query and a document that has all ordering
\* fields, the document lies within the bounds of the Query under its own
\* ordering (what matchesBounds returns) exactly when it lies within the
\* swapped, flag-inverted bounds of the Target under the Target's reversed
\* ordering.
C3_SameResultSet ==
  (/\ Matched /\ q.limitType = Last /\ IsSet(memoizedTarget)
   /\ HasOrderingFields(Get(memoizedOrderBy), D)
   /\ Comparable(q.startAt, Get(memoizedOrderBy), D)
   /\ Comparable(q.endAt, Get(memoizedOrderBy), D)) =>
    LET t == Get(memoizedTarget)
        own == matchesBounds(q, Get(memoizedOrderBy), D)
    IN /\ Comparable(t.startAt, t.orderBy, D)
       /\ Comparable(t.endAt, t.orderBy, D)
       /\ ~own.err
       /\ own.val = Within(q.startAt, q.endAt, Get(memoizedOrderBy), D)
       /\ own.val = Within(t.startAt, t.endAt, t.orderBy, D)

\* matches was applied to a limit-to-last Query with both bounds, after
\* toTarget, and the document agrees with the start position on the first
\* clause of a two-clause explicit ordering.
C3_Witness ==
  /\ Matched /\ q.limitType = Last /\ IsSet(memoizedTarget)
  /\ IsSet(q.startAt) /\ IsSet(q.endAt)
  /\ Len(q.explicitOrderBy) = 2
  /\ HasOrderingFields(Get(memoizedOrderBy), D)
  /\ Get(q.startAt).position = <<Num(1), Ref(KeyX)>>
  /\ D.a = Some(Num(1))
  /\ ret = Some(TRUE)

\* The bound check of matches for document doc, once the other three hold.
BoundsHold(doc) ==
  IF ~IsSet(q.startAt) /\ ~IsSet(q.endAt) THEN TRUE
  ELSE LET b == matchesBounds(q, Get(memoizedOrderBy), doc)
       IN ~b.err /\ b.val

\* C4: matches returns true exactly when the scope check, the ordering-field
\* check, every filter and the bound check hold; when three of the four
\* hold, it returns the outcome of the fourth.
C4_FourChecks ==
  Matched =>
    LET scope == matchesPathAndCollectionGroup(q, D)
        present == \A i \in 1..Len(q.explicitOrderBy) :
                     \/ isKeyField(q.explicitOrderBy[i].field)
                     \/ IsSet(DocField(D, q.explicitOrderBy[i].field))
        filters == \A i \in 1..Len(q.filters) : FilterMatches(q.filters[i], D)
    IN /\ Get(ret) <=> (scope /\ present /\ filters /\ BoundsHold(D))
       /\ (present /\ filters /\ BoundsHold(D)) => (Get(ret) <=> scope)
       /\ (scope /\ filters /\ BoundsHold(D)) => (Get(ret) <=> present)
       /\ (scope /\ present /\ BoundsHold(D)) => (Get(ret) <=> filters)
       /\ (scope /\ present /\ filters) => (Get(ret) <=> BoundsHold(D))

\* matches returned false for a document that is in scope, has the ordering
\* fields and lies within both bounds, and fails one of two filters.
C4_Witness ==
  /\ Matched /\ ret = Some(FALSE)
  /\ IsSet(q.startAt) /\ IsSet(q.endAt)
  /\ matchesPathAndCollectionGroup(q, D)
  /\ matchesOrderBy(q, D)
  /\ HasOrderingFields(Get(memoizedOrderBy), D)
  /\ BoundsHold(D)
  /\ Len(q.filters) > 0
  /\ ~FilterMatches(q.filters[1], D)

AtPosition(v) ==
  /\ Matched
  /\ Len(q.explicitOrderBy) = 1
  /\ ~isKeyField(q.explicitOrderBy[1].field)
  /\ memoizedOrderBy = Some(<<OrderBy(q.explicitOrderBy[1].field, ASCENDING),
                              OrderBy(KeyField, ASCENDING)>>)
  /\ matchesPathAndCollectionGroup(q, D)
  /\ matchesOrderBy(q, D)
  /\ matchesFilters(q, D)
  /\ DocField(D, q.explicitOrderBy[1].field) = Some(v)

IneqOnly == q.explicitOrderBy = <<>> /\ IsSet(getInequalityFilterField(q))
F == Get(getInequalityFilterField(q))

\* Every inequality filter of the Query accepts the document.
SatisfiesInequality(doc) ==
  \A i \in 1..Len(q.filters) :
    isInequality(q.filters[i]) => FilterMatches(q.filters[i], doc)

ImmediateChild(doc) ==
  ~IsSet(q.collectionGroup) /\ isImmediateParentOf(q.path, doc.key)

\* The resolved ordering of C10, once the getter has run.
IneqOrdering ==
  IsSet(memoizedOrderBy) =>
    Get(memoizedOrderBy) =
      IF isKeyField(F) THEN <<OrderBy(KeyField, ASCENDING)>>
      ELSE <<OrderBy(F, ASCENDING), OrderBy(KeyField, ASCENDING)>>

\* C10 as stated: with an inequality filter on F and no explicit OrderBy
\* clause the resolved ordering is [F asc, key asc], or [key asc] when F is
\* the key field; a document at an immediate child path whose F value
\* satisfies the inequality matches, and one lacking F does not.
C10_SatisfyingMatches ==
  (IneqOnly /\ err = "none") =>
    /\ IneqOrdering
    /\ Matched =>
         /\ (ImmediateChild(D) /\ SatisfiesInequality(D)) => ret = Some(TRUE)
         /\ (~isKeyField(F) /\ ~IsSet(DocField(D, F))) => ret = Some(FALSE)

\* C10 amended: the document whose F value satisfies the inequality matches
\* provided it also passes the other filters and the bounds of the Query.
C10_SatisfyingAndRestMatches ==
  (IneqOnly /\ err = "none") =>
    /\ IneqOrdering
    /\ Matched =>
         /\ (/\ ImmediateChild(D) /\ SatisfiesInequality(D)
             /\ matchesFilters(q, D) /\ BoundsHold(D)) => ret = Some(TRUE)
         /\ (~isKeyField(F) /\ ~IsSet(DocField(D, F))) => ret = Some(FALSE)

\* matches returned true, after the getter resolved [a asc, key asc], for a
\* document whose value of a satisfies the only filter a > 1.
C10_Witness ==
  /\ Matched /\ IneqOnly /\ ret = Some(TRUE)
  /\ ImmediateChild(D)
  /\ q.filters = <<Made("a", GREATER_THAN, Num(1))>>
  /\ ~IsSet(q.startAt) /\ ~IsSet(q.endAt)
  /\ memoizedOrderBy = Some(<<OrderBy("a", ASCENDING),
                              OrderBy(KeyField, ASCENDING)>>)
  /\ D.a = Some(Num(MaxVal))

(***************************************************************************)
(* SpecCompare: docComparator applied to pairs of documents, for Queries   *)
(* without bounds on a collection or a collection group.                   *)
(***************************************************************************)
CompareFilters ==
  BoundFilters \cup
  {<<Made("a", GREATER_THAN, Num(1)), Made("b", EQUAL, Num(1))>>,
   <<Made(KeyField, GREATER_THAN_OR_EQUAL, Ref(KeyY))>>}

CompareQueries ==
  {QueryAttrs(s[1], s[2], o, f, None, First, None, None) :
     s \in {<<CollectionPath, None>>, <<EMPTY_PATH, Some("c")>>},
     o \in MatchOrderBys, f \in CompareFilters}

InitCompare ==
  /\ q \in CompareQueries
  /\ memoizedOrderBy = None
  /\ memoizedTarget = None
  /\ op = "new"
  /\ args = None
  /\ ret = None
  /\ err = "none"
  /\ callers = NoCallers
  /\ connection = NoConnection

\* docComparator leaves the Query as the getter leaves it, so a behaviour
\* applies it to one pair of documents.
docComparator(d1, d2) ==
  /\ err = "none"
  /\ op # "docComparator"
  /\ LET c == DocComparator(this, d1, d2)
     IN /\ q' = c.obj.q
        /\ memoizedOrderBy' = c.obj.memoizedOrderBy
        /\ memoizedTarget' = c.obj.memoizedTarget
        /\ err' = c.err
        /\ ret' = IF c.err = "none" THEN Some(c.val) ELSE None
  /\ op' = "docComparator"
  /\ args' = <<d1, d2>>
  /\ callers' = callers
  /\ connection' = connection

NextCompare ==
  \/ getOrderBy
  \/ \E d1, d2 \in Docs : docComparator(d1, d2)

SpecCompare == InitCompare /\ [][NextCompare]_vars

\* The Query matches the document (it has no bounds here).
DoesMatch(doc) == LET m == Matches(this, doc) IN ~m.err /\ m.val

\* The first non-zero per-clause comparison along orderBy, or 0.
FirstNonZero(orderBy, d1, d2) ==
  LET nz == {i \in 1..Len(orderBy) : compare(orderBy[i], d1, d2) # 0}
  IN IF nz = {} THEN 0
     ELSE compare(orderBy[CHOOSE i \in nz : \A j \in nz : i <= j], d1, d2)

\* C7: for documents d1, d2 that match the Query, the key-field assertion of
\* docComparator never fails and the only assertion that can stop it is the
\* one of the orderBy getter; the value it returns is the first non-zero
\* per-clause comparison along orderBy, is 0 only if d1 and d2 have the same
\* key, has the opposite sign of docComparator(d2, d1), and is transitive
\* over every matching d3.
C7_StrictTotalOrder ==
  (op = "docComparator" /\ DoesMatch(args[1]) /\ DoesMatch(args[2])) =>
    /\ err # KeyAssert
    /\ err = "assert" => OrderByAssertFails(q)
    /\ err = "none" =>
         LET d1 == args[1]
             d2 == args[2]
             c12 == Get(ret)
         IN /\ c12 = FirstNonZero(Get(memoizedOrderBy), d1, d2)
            /\ c12 = 0 => d1.key = d2.key
            /\ Sign(c12) = -Sign(DocComparator(this, d2, d1).val)
            /\ \A d3 \in Docs :
                 (/\ DoesMatch(d3)
                  /\ c12 < 0
                  /\ DocComparator(this, d2, d3).val < 0) =>
                   DocComparator(this, d1, d3).val < 0

\* docComparator returned a negative value decided by the second of three
\* clauses, for two matching documents with different keys.
C7_Witness ==
  /\ op = "docComparator" /\ err = "none"
  /\ DoesMatch(args[1]) /\ DoesMatch(args[2])
  /\ Len(Get(memoizedOrderBy)) = 3
  /\ compare(Get(memoizedOrderBy)[1], args[1], args[2]) = 0
  /\ args[1].key # args[2].key
  /\ Get(ret) < 0

(***************************************************************************)
(* Claims about the Queries the builder operations reach, checked under    *)
(* Spec.                                                                   *)
(***************************************************************************)
Builders ==
  {"addFilter", "addOrderBy", "withLimitToFirst", "withLimitToLast",
   "withStartAt", "withEndAt", "asCollectionQueryAtPath"}

\* The Query the program holds was returned by a builder operation.
Built == op \in Builders /\ err = "none"

InequalityFilters(attrs) ==
  {i \in 1..Len(attrs.filters) : isInequality(attrs.filters[i])}

\* C11: a Query returned by a builder operation holds at most one
\* inequality-operator filter, and if it holds one and has an explicit
\* ordering, the filter's field is the field of the first explicit OrderBy
\* clause.
C11_InequalityMatchesFirstOrderBy ==
  Built =>
    /\ Cardinality(InequalityFilters(q)) <= 1
    /\ (InequalityFilters(q) # {} /\ Len(q.explicitOrderBy) > 0) =>
         getInequalityFilterField(q) = getFirstOrderByField(q)

\* Records new and old agree on every attribute outside changed.
SameExcept(new, old, changed) ==
  \A f \in (DOMAIN old) \ changed : new[f] = old[f]

\* new is old with one element appended.
Appended(new, old) ==
  Len(new) = Len(old) + 1 /\ SubSeq(new, 1, Len(old)) = old

\* C12: a builder operation that returns leaves the attributes of the
\* receiver as they were and returns a new Query (no memoized Target yet)
\* that differs from the receiver only in the attribute the operation sets;
\* the explicitOrderBy and filters arrays of the new Query are new array
\* objects, not those of the receiver.
C12_BuildersLeaveReceiver ==
  [][(op' \in Builders /\ err' = "none") =>
       /\ Get(args').receiver = q
       /\ memoizedTarget' = None
       /\ Get(args').explicitOrderBy # "this.explicitOrderBy"
       /\ Get(args').filters # "this.filters"
       /\ CASE op' = "addFilter" ->
                 /\ SameExcept(q', q, {"filters"})
                 /\ Appended(q'.filters, q.filters)
            [] op' = "addOrderBy" ->
                 /\ SameExcept(q', q, {"explicitOrderBy"})
                 /\ Appended(q'.explicitOrderBy, q.explicitOrderBy)
            [] op' = "withLimitToFirst" ->
                 SameExcept(q', q, {"limit", "limitType"}) /\ q'.limitType = First
            [] op' = "withLimitToLast" ->
                 SameExcept(q', q, {"limit", "limitType"}) /\ q'.limitType = Last
            [] op' = "withStartAt" ->
                 SameExcept(q', q, {"startAt"}) /\ IsSet(q'.startAt)
            [] op' = "withEndAt" ->
                 SameExcept(q', q, {"endAt"}) /\ IsSet(q'.endAt)
            [] op' = "asCollectionQueryAtPath" ->
                 /\ SameExcept(q', q, {"path", "collectionGroup"})
                 /\ q'.collectionGroup = None
     ]_vars

\* addFilter returned the second filter of a Query with an explicit clause,
\* called on a receiver that held one filter.
C12_Witness ==
  /\ op = "addFilter" /\ err = "none"
  /\ Len(q.filters) = 2 /\ Len(q.explicitOrderBy) = 1
  /\ Len(Get(args).receiver.filters) = 1

\* C17 (under Spec): for a Query with no inequality filter or with an
\* explicit OrderBy clause, the getter returns the explicit clauses in
\* their sequence, followed by one key-field clause exactly when no explicit
\* clause names the key field, in the direction of the last explicit clause
\* or Ascending when there is none. The getter returns unless the Query has
\* an inequality filter on a field other than that of its first clause.
C17_ExplicitThenSyntheticKey ==
  (/\ op = "orderBy"
   /\ (InequalityFilters(q) = {} \/ Len(q.explicitOrderBy) > 0)) =>
    LET explicit == q.explicitOrderBy
        synthetic ==
          IF HasKeyClause(explicit) THEN <<>>
          ELSE <<OrderBy(KeyField,
                         IF explicit = <<>> THEN ASCENDING
                         ELSE explicit[Len(explicit)].dir)>>
    IN IF /\ InequalityFilters(q) # {}
          /\ getInequalityFilterField(q) # Some(explicit[1].field)
       THEN err = "assert"
       ELSE /\ err = "none"
            /\ ret = Some(explicit \o synthetic)
            /\ memoizedOrderBy = ret

\* The getter returned the ordering of a Query with an inequality filter
\* and two explicit clauses, the last one descending and none on the key.
C17_Witness ==
  /\ op = "orderBy" /\ err = "none"
  /\ InequalityFilters(q) # {}
  /\ Len(q.explicitOrderBy) = 2
  /\ ~HasKeyClause(q.explicitOrderBy)
  /\ q.explicitOrderBy[2].dir = DESCENDING
  /\ Get(ret)[3] = OrderBy(KeyField, DESCENDING)

(***************************************************************************)
(* SpecRace: calls of orderBy and toTarget on one Query by callers whose   *)
(* steps interleave. A step is one statement of the getter or of toTarget  *)
(* that reads or writes a memoized field; each push goes to the array the  *)
(* field memoizedOrderBy holds when the push runs.                         *)
(***************************************************************************)
MaxCallers == 2
Callers == 1..MaxCallers

\* A caller: the operation it called, its position, the loop index and the
\* local foundKeyOrdering of the getter, and what the call returned.
Caller(call, pc, i, found, result) ==
  [call |-> call, pc |-> pc, i |-> i, found |-> found, result |-> result]

RaceOrderBys ==
  {<<>>, <<OrderBy("a", DESCENDING)>>,
   <<OrderBy("a", ASCENDING), OrderBy(KeyField, DESCENDING)>>}

RaceQueries ==
  {QueryAttrs(CollectionPath, None, o, f, Some(2), t, None, None) :
     o \in RaceOrderBys,
     f \in {<<>>, <<Made("a", GREATER_THAN, Num(1))>>},
     t \in {First, Last}}

InitRace ==
  /\ q \in RaceQueries
  /\ memoizedOrderBy = None
  /\ memoizedTarget = None
  /\ op = "new"
  /\ args = None
  /\ ret = None
  /\ err = "none"
  /\ callers \in [Callers ->
                    {Caller("orderBy", "check", 1, FALSE, None),
                     Caller("toTarget", "toTarget", 1, FALSE, None)}]
  /\ connection = NoConnection

\* Caller c takes the step name, which leaves the memoized fields mo and mt
\* and the caller as next.
Step(c, name, mo, mt, next) ==
  /\ q' = q
  /\ memoizedOrderBy' = mo
  /\ memoizedTarget' = mt
  /\ callers' = [callers EXCEPT ![c] = next]
  /\ connection' = connection
  /\ op' = name
  /\ args' = <<c>>
  /\ ret' = None
  /\ err' = IF next.pc = "threw" THEN "assert" ELSE err

\* if (this.memoizedOrderBy === null)
orderBy_check(c) ==
  /\ callers[c].pc = "check"
  /\ Step(c, "orderBy_check", memoizedOrderBy, memoizedTarget,
          [callers[c] EXCEPT !.pc = IF IsSet(memoizedOrderBy) THEN "return"
                                    ELSE "init"])

\* this.memoizedOrderBy = [], and the branch taken after it.
orderBy_init(c) ==
  /\ callers[c].pc = "init"
  /\ LET inequalityField == getInequalityFilterField(q)
         firstOrderByField == getFirstOrderByField(q)
         pc == IF IsSet(inequalityField) /\ ~IsSet(firstOrderByField)
               THEN (IF ~isKeyField(Get(inequalityField))
                     THEN "pushInequality" ELSE "pushKey")
               ELSE IF OrderByAssertFails(q) THEN "threw"
               ELSE IF Len(q.explicitOrderBy) > 0 THEN "loop"
               ELSE "pushLast"
     IN Step(c, "orderBy_init", Some(<<>>), memoizedTarget,
             [callers[c] EXCEPT !.pc = pc])

\* this.memoizedOrderBy.push(new OrderBy(inequalityField))
orderBy_pushInequality(c) ==
  /\ callers[c].pc = "pushInequality"
  /\ Step(c, "orderBy_pushInequality",
          Some(Append(Get(memoizedOrderBy),
                      OrderBy(Get(getInequalityFilterField(q)), ASCENDING))),
          memoizedTarget, [callers[c] EXCEPT !.pc = "pushKey"])

\* this.memoizedOrderBy.push(new OrderBy(FieldPath.keyField(), ASCENDING))
orderBy_pushKey(c) ==
  /\ callers[c].pc = "pushKey"
  /\ Step(c, "orderBy_pushKey",
          Some(Append(Get(memoizedOrderBy), OrderBy(KeyField, ASCENDING))),
          memoizedTarget, [callers[c] EXCEPT !.pc = "return"])

\* One pass of the loop over this.explicitOrderBy.
orderBy_loop(c) ==
  /\ callers[c].pc = "loop"
  /\ LET i == callers[c].i
         orderBy == q.explicitOrderBy[i]
         foundKeyOrdering == callers[c].found \/ isKeyField(orderBy.field)
         pc == IF i < Len(q.explicitOrderBy) THEN "loop"
               ELSE IF foundKeyOrdering THEN "return" ELSE "pushLast"
     IN Step(c, "orderBy_loop",
             Some(Append(Get(memoizedOrderBy), orderBy)), memoizedTarget,
             [callers[c] EXCEPT !.pc = pc, !.i = i + 1,
                                !.found = foundKeyOrdering])

\* this.memoizedOrderBy.push(new OrderBy(FieldPath.keyField(), lastDirection))
orderBy_pushLast(c) ==
  /\ callers[c].pc = "pushLast"
  /\ LET explicit == q.explicitOrderBy
         lastDirection ==
           IF Len(explicit) > 0 THEN explicit[Len(explicit)].dir ELSE ASCENDING
     IN Step(c, "orderBy_pushLast",
             Some(Append(Get(memoizedOrderBy), OrderBy(KeyField, lastDirection))),
             memoizedTarget, [callers[c] EXCEPT !.pc = "return"])

\* return this.memoizedOrderBy: to the caller of orderBy, or to toTarget,
\* which builds the Target from it and stores it in memoizedTarget.
orderBy_return(c) ==
  /\ callers[c].pc = "return"
  /\ IF callers[c].call = "orderBy"
     THEN Step(c, "orderBy_return", memoizedOrderBy, memoizedTarget,
               [callers[c] EXCEPT !.pc = "done", !.result = memoizedOrderBy])
     ELSE Step(c, "orderBy_return", memoizedOrderBy,
               Some(BuildTarget(q, Get(memoizedOrderBy))),
               [callers[c] EXCEPT !.pc = "toTarget_return"])

\* if (!this.memoizedTarget)
toTarget_check(c) ==
  /\ callers[c].pc = "toTarget"
  /\ Step(c, "toTarget_check", memoizedOrderBy, memoizedTarget,
          [callers[c] EXCEPT !.pc = IF IsSet(memoizedTarget)
                                    THEN "toTarget_return" ELSE "check"])

\* return this.memoizedTarget
toTarget_return(c) ==
  /\ callers[c].pc = "toTarget_return"
  /\ Step(c, "toTarget_return", memoizedOrderBy, memoizedTarget,
          [callers[c] EXCEPT !.pc = "done", !.result = memoizedTarget])

NextRace ==
  \E c \in Callers :
    \/ orderBy_check(c)
    \/ orderBy_init(c)
    \/ orderBy_pushInequality(c)
    \/ orderBy_pushKey(c)
    \/ orderBy_loop(c)
    \/ orderBy_pushLast(c)
    \/ orderBy_return(c)
    \/ toTarget_check(c)
    \/ toTarget_return(c)

SpecRace == InitRace /\ [][NextRace]_vars

\* What a single sequential call of the operation returns.
Sequential(call) ==
  IF call = "orderBy" THEN Some(ResolvedOrderBy(q))
  ELSE Some(BuildTarget(q, ResolvedOrderBy(q)))

LacksOrderingField(doc) ==
  \E i \in 1..Len(q.explicitOrderBy) :
    /\ ~isKeyField(q.explicitOrderBy[i].field)
    /\ ~IsSet(DocField(doc, q.explicitOrderBy[i].field))

\* C14 (under SpecMatch): matches returns false, and does not throw, for a
\* document that lacks the field of an explicit non-key clause, whatever
\* the filters and bounds; a document that has those fields and passes the
\* scope, the filters and the bounds matches, so that neither an explicit
\* nor the synthetic key clause excludes it.
C14_MissingOrderingField ==
  op = "matches" =>
    /\ LacksOrderingField(D) => (err = "none" /\ ret = Some(FALSE))
    /\ (/\ err = "none"
        /\ ~LacksOrderingField(D)
        /\ matchesPathAndCollectionGroup(q, D)
        /\ matchesFilters(q, D)
        /\ BoundsHold(D)) => ret = Some(TRUE)

\* matches returned false for a document in scope that passes the filter
\* and has the field of the first explicit clause but not of the second.
C14_Witness ==
  /\ Matched /\ ret = Some(FALSE)
  /\ Len(q.explicitOrderBy) = 2
  /\ IsSet(DocField(D, q.explicitOrderBy[1].field))
  /\ ~isKeyField(q.explicitOrderBy[2].field)
  /\ ~IsSet(DocField(D, q.explicitOrderBy[2].field))
  /\ matchesPathAndCollectionGroup(q, D)
  /\ Len(q.filters) > 0 /\ matchesFilters(q, D)

\* C15 (under Spec): in a Query returned by a builder operation each bound
\* that is present has a position no longer than the resolved ordering,
\* which the constructor has memoized; so a builder that would construct a
\* Query with a longer bound does not return. addOrderBy returns only on a
\* Query without bounds.
C15_BoundsWithinOrdering ==
  Built =>
    /\ \A b \in {q.startAt, q.endAt} :
         IsSet(b) =>
           /\ memoizedOrderBy = Some(ResolvedOrderBy(q))
           /\ Len(Get(b).position) <= Len(ResolvedOrderBy(q))
    /\ op = "addOrderBy" => (~IsSet(q.startAt) /\ ~IsSet(q.endAt))

\* withEndAt returned a Query with both bounds, the end bound as long as
\* the resolved ordering.
C15_Witness ==
  /\ op = "withEndAt" /\ err = "none"
  /\ IsSet(q.startAt) /\ IsSet(q.endAt)
  /\ Len(Get(q.endAt).position) = 2
  /\ Len(ResolvedOrderBy(q)) = 2

(***************************************************************************)
(* SpecBound: Bound.sortsBeforeDocument applied to a bound, a resolved     *)
(* ordering and a document.                                                *)
(***************************************************************************)
BoundPositions ==
  {<<>>, <<Num(1), Num(1), Ref(KeyX)>>} \cup PositionInputs

BoundOrderBys ==
  {ResolvedOrderBy(QueryAttrs(CollectionPath, None, o, <<>>, None, First, None, None)) :
     o \in MatchOrderBys}

InitBound ==
  /\ q = atPath(CollectionPath)
  /\ memoizedOrderBy = None
  /\ memoizedTarget = None
  /\ op = "new"
  /\ args \in {<<Bound(p, b), o, d>> :
                 p \in BoundPositions, b \in BOOLEAN, o \in BoundOrderBys,
                 d \in Docs}
  /\ ret = None
  /\ err = "none"
  /\ callers = NoCallers
  /\ connection = NoConnection

Bound_sortsBeforeDocument ==
  /\ op = "new"
  /\ LET threw == sortsBeforeFails(args[1], args[2], args[3])
     IN /\ err' = IF threw THEN "assert" ELSE "none"
        /\ ret' = IF threw THEN None
                  ELSE Some(sortsBeforeDocument(args[1], args[2], args[3]))
  /\ op' = "sortsBeforeDocument"
  /\ UNCHANGED <<q, memoizedOrderBy, memoizedTarget, args, callers, connection>>

NextBound == Bound_sortsBeforeDocument

SpecBound == InitBound /\ [][NextBound]_vars

\* Clause i can be compared: a reference value against the key, or any
\* value against a field the document has.
ClauseTyped(bound, orderBy, doc, i) ==
  IF isKeyField(orderBy[i].field) THEN isReferenceValue(bound.position[i])
  ELSE IsSet(DocField(doc, orderBy[i].field))

\* The comparison of clause i: the bound's value against the document's
\* key or field value, negated for a descending clause.
ClauseComparison(bound, orderBy, doc, i) ==
  LET c == IF isKeyField(orderBy[i].field)
           THEN PathCompare(bound.position[i].k, doc.key)
           ELSE valueCompare(bound.position[i],
                             Get(DocField(doc, orderBy[i].field)))
  IN IF orderBy[i].dir = DESCENDING THEN -c ELSE c

\* The clauses, among the first k, at which the walk ends.
Stops(bound, orderBy, doc) ==
  {i \in 1..Len(bound.position) :
     IF ClauseTyped(bound, orderBy, doc, i)
     THEN ClauseComparison(bound, orderBy, doc, i) # 0
     ELSE TRUE}

MemoQueries ==
  {attrs \in
     {QueryAttrs(CollectionPath, None, o, f, lt[1], lt[2], sa, None) :
        o \in MatchOrderBys, f \in BoundFilters,
        lt \in {<<None, First>>, <<Some(2), Last>>},
        sa \in {None, Some(Bound(<<Num(1)>>, TRUE))}} :
     ~NewQuery(attrs).err}

\* The documents handed to matches and docComparator.
MemoDocs == {d \in Docs : d.key = KeyX /\ d.b = Some(Num(1))}

InitMemo ==
  /\ q \in MemoQueries
  /\ memoizedOrderBy = NewQuery(q).obj.memoizedOrderBy
  /\ memoizedTarget = None
  /\ op = "new"
  /\ args = None
  /\ ret = None
  /\ err = "none"
  /\ callers = NoCallers
  /\ connection = NoConnection

\* canonicalId(): the canonical id of the Target, kept as the Target, with
\* the limit type.
canonicalId ==
  /\ err = "none"
  /\ LET t == ToTarget(this)
     IN /\ Holds(t.obj, "canonicalId", t.err)
        /\ ret' = IF t.err THEN None
                  ELSE Some([target |-> Get(t.obj.memoizedTarget),
                             lt |-> q.limitType])
  /\ args' = None

\* isEqual(other), other a Query constructed from attributes attrs.
isEqual(attrs) ==
  /\ err = "none"
  /\ LET t == ToTarget(this)
         other == ToTarget(NewQuery(attrs).obj)
     IN /\ Holds(t.obj, "isEqual", t.err \/ other.err)
        /\ ret' = IF t.err \/ other.err THEN None
                  ELSE Some(/\ t.obj.memoizedTarget = other.obj.memoizedTarget
                            /\ q.limitType = attrs.limitType)
  /\ args' = <<attrs>>

isDocumentQuery ==
  /\ err = "none"
  /\ LET t == ToTarget(this)
     IN /\ Holds(t.obj, "isDocumentQuery", t.err)
        /\ ret' = IF t.err THEN None
                  ELSE Some(TargetIsDocumentQuery(Get(t.obj.memoizedTarget)))
  /\ args' = None

NextMemo ==
  \/ getOrderBy
  \/ toTarget
  \/ \E doc \in MemoDocs : matches(doc)
  \/ \E d1, d2 \in MemoDocs : docComparator(d1, d2)
  \/ canonicalId
  \/ \E attrs \in {q, atPath(CollectionPath)} : isEqual(attrs)
  \/ isDocumentQuery

SpecMemo == InitMemo /\ [][NextMemo]_vars

\* What a Query freshly constructed from attributes attrs returns.
FreshOrderBy(attrs) == GetOrderBy(NewQuery(attrs).obj).obj.memoizedOrderBy
FreshTarget(attrs) == ToTarget(NewQuery(attrs).obj).obj.memoizedTarget

\* C18: no operation changes the attributes of the Query, nor a memoized
\* field once it is set; every call of orderBy that returns gives the
\* memoized ordering and every call of toTarget that returns gives the
\* memoized Target, which are those a freshly constructed Query with the
\* same attributes returns.
C18_MemoizedOnce ==
  [][/\ q' = q
     /\ IsSet(memoizedOrderBy) => memoizedOrderBy' = memoizedOrderBy
     /\ IsSet(memoizedTarget) => memoizedTarget' = memoizedTarget
     /\ (op' = "orderBy" /\ err' = "none") =>
          (ret' = memoizedOrderBy' /\ ret' = FreshOrderBy(q))
     /\ (op' = "toTarget" /\ err' = "none") =>
          (ret' = memoizedTarget' /\ ret' = FreshTarget(q))
    ]_vars

\* toTarget returned the memoized Target of a limit-to-last Query after
\* docComparator had resolved the ordering and canonicalId had built the
\* Target.
C18_Witness ==
  /\ op = "toTarget" /\ err = "none"
  /\ q.limitType = Last
  /\ ret = memoizedTarget
  /\ Get(memoizedOrderBy) # Get(ret).orderBy

(***************************************************************************)
(* SpecConnection: MockConnection's write stream and the hand-off of the   *)
(* write requests to the callers of waitForWriteRequest.                   *)
(***************************************************************************)
\* The requests the write streams are sent.
MaxRequests == 4
\* The calls of waitForWriteRequest.
MaxWaits == 3
\* The times the write stream is closed.
MaxCloses == 1

\* An api.WriteRequest: whether database and streamToken are set, and the
\* writes, if set.
WriteRequest(database, streamToken, writes) ==
  [database |-> database, streamToken |-> streamToken, writes |-> writes]

WriteRequests ==
  {WriteRequest(TRUE, FALSE, None),
   WriteRequest(FALSE, FALSE, None),
   WriteRequest(FALSE, FALSE, Some(1))}
  \cup {WriteRequest(FALSE, TRUE, Some(w)) : w \in 1..MaxVal}

\* The fields of a MockConnection. writeStream is "null" or "open";
\* firstCall is the variable the sendFn of the open stream closes over. A
\* Deferred is the index of its promise in promises, and a promise is None
\* while it is pending and Some(request) once resolved. writes holds the
\* requests sendFn has taken past the handshake, and closes counts the calls
\* of resetAndCloseWriteStream.
MockConnection ==
  [writeStream |-> "null", firstCall |-> FALSE,
   writeSendBarriers |-> <<>>, earlyWrites |-> <<>>,
   writeStreamRequestCount |-> 0, nextWriteStreamToken |-> 0,
   promises |-> <<>>, writes |-> <<>>, closes |-> 0]

InitConnection ==
  /\ q = atPath(CollectionPath)
  /\ memoizedOrderBy = None
  /\ memoizedTarget = None
  /\ op = "new"
  /\ args = None
  /\ ret = None
  /\ err = "none"
  /\ callers = NoCallers
  /\ connection = MockConnection

\* The connection is next after operation name.
Connected(next, name, error) ==
  /\ connection' = next
  /\ op' = name
  /\ err' = error
  /\ UNCHANGED <<q, memoizedOrderBy, memoizedTarget, args, ret, callers>>

\* waitForWriteRequest that takes the last early write.
waitForWriteRequest_Pop ==
  /\ err = "none"
  /\ Len(connection.promises) < MaxWaits
  /\ LET early == connection.earlyWrites
         n == Len(early)
     IN IF n > 0
        THEN Connected([connection EXCEPT
                          !.earlyWrites = SubSeq(early, 1, n - 1),
                          !.promises = Append(@, Some(early[n]))],
                       "waitForWriteRequest", "none")
        ELSE Connected([connection EXCEPT
                          !.writeSendBarriers =
                             Append(@, Len(connection.promises) + 1),
                          !.promises = Append(@, None)],
                       "waitForWriteRequest", "none")

waitForWriteRequest ==
  /\ err = "none"
  /\ Len(connection.promises) < MaxWaits
  /\ LET early == connection.earlyWrites
     IN IF early # <<>>
        THEN Connected([connection EXCEPT
                          !.earlyWrites = Tail(early),
                          !.promises = Append(@, Some(Head(early)))],
                       "waitForWriteRequest", "none")
        ELSE Connected([connection EXCEPT
                          !.writeSendBarriers =
                             Append(@, Len(connection.promises) + 1),
                          !.promises = Append(@, None)],
                       "waitForWriteRequest", "none")

\* ackWrite on connection c: writeStream!.callOnMessage throws on a null
\* stream; the message goes to the stream's listener.
AckWrite(c) ==
  IF c.writeStream = "null" THEN [c |-> c, err |-> "throw"]
  ELSE [c |-> [c EXCEPT !.nextWriteStreamToken = @ + 1], err |-> "none"]

ackWrite ==
  /\ err = "none"
  /\ connection.nextWriteStreamToken < MaxRequests
  /\ LET a == AckWrite(connection)
     IN Connected(a.c, "ackWrite", a.err)

\* failWrite and the closeFn of the write stream: both arrays are replaced
\* before callOnClose is called on the stream.
resetAndCloseWriteStream ==
  /\ err = "none"
  /\ connection.closes < MaxCloses
  /\ LET c == [connection EXCEPT !.writeSendBarriers = <<>>,
                                 !.earlyWrites = <<>>,
                                 !.closes = @ + 1]
     IN IF connection.writeStream = "null"
        THEN Connected(c, "resetAndCloseWriteStream", "throw")
        ELSE Connected([c EXCEPT !.writeStream = "null"],
                       "resetAndCloseWriteStream", "none")

\* openStream('Write', token). The callOnOpen it enqueues acts on the
\* stream's listener only.
openStream ==
  /\ err = "none"
  /\ IF connection.writeStream # "null"
     THEN Connected(connection, "openStream", "throw")
     ELSE Connected([connection EXCEPT !.writeStream = "open",
                                       !.firstCall = TRUE],
                    "openStream", "none")

\* The sendFn of the open write stream.
sendFn(request) ==
  /\ err = "none"
  /\ connection.writeStream = "open"
  /\ connection.writeStreamRequestCount < MaxRequests
  /\ LET c == [connection EXCEPT !.writeStreamRequestCount = @ + 1]
     IN IF c.firstCall
        THEN IF ~request.database \/ IsSet(request.writes)
             THEN Connected(c, "sendFn", "assert")
             ELSE LET a == AckWrite(c)
                  IN Connected([a.c EXCEPT !.firstCall = FALSE],
                               "sendFn", a.err)
        ELSE IF ~request.streamToken \/ ~IsSet(request.writes)
             THEN Connected(c, "sendFn", "assert")
             ELSE LET sent == [c EXCEPT !.writes = Append(@, request)]
                      barriers == c.writeSendBarriers
                  IN IF barriers = <<>>
                     THEN Connected([sent EXCEPT
                                       !.earlyWrites = Append(@, request)],
                                    "sendFn", "none")
                     ELSE Connected([sent EXCEPT
                                       !.writeSendBarriers = Tail(barriers),
                                       !.promises[Head(barriers)] =
                                          Some(request)],
                                    "sendFn", "none")

NextConnection ==
  \/ openStream
  \/ \E request \in WriteRequests : sendFn(request)
  \/ waitForWriteRequest
  \/ ackWrite
  \/ resetAndCloseWriteStream

SpecConnection == InitConnection /\ [][NextConnection]_vars

\* C19: while the write stream has not been closed, the i-th promise of
\* waitForWriteRequest is resolved with the i-th write request sent after
\* the handshake, or is pending when fewer than i have been sent; the
\* requests not yet handed to a promise are the early writes, in the order
\* sent, the pending promises are the barriers, in the order of the calls,
\* and the barriers and the early writes are never both non-empty.
C19_WriteHandOff ==
  connection.closes = 0 =>
    LET promises == connection.promises
        writes == connection.writes
    IN /\ \A i \in 1..Len(promises) :
            promises[i] = IF i <= Len(writes) THEN Some(writes[i]) ELSE None
       /\ connection.earlyWrites =
            SubSeq(writes, Len(promises) + 1, Len(writes))
       /\ connection.writeSendBarriers =
            [i \in 1..(IF Len(promises) > Len(writes)
                       THEN Len(promises) - Len(writes) ELSE 0) |->
               Len(writes) + i]
       /\ connection.writeSendBarriers = <<>> \/ connection.earlyWrites = <<>>

\* Two different write requests have been sent and given, in the order
\* sent, to the first two calls of waitForWriteRequest; a third call waits.
C19_Witness ==
  /\ connection.closes = 0
  /\ Len(connection.writes) = 2
  /\ connection.writes[1] # connection.writes[2]
  /\ connection.promises =
       <<Some(connection.writes[1]), Some(connection.writes[2]), None>>
  /\ connection.writeSendBarriers = <<3>>
=============================================================================
